---- MODULE Spec2Model ----
(***************************************************************************)
(* A model of slink (src/src/main.rs, src/src/commands.rs): the base       *)
(* directory with its store entries and capability links, the SQLite       *)
(* ledger (tables files and shares), and the commands add, share, unshare  *)
(* and rm, each split at its filesystem and ledger calls.                  *)
(*                                                                         *)
(* Conventions.                                                            *)
(*  - Entry names of the base directory, identifiers, recipients and link  *)
(*    tokens are strings; file names are sequences of characters (one-     *)
(*    character strings, plus the atom "slink_temp_" that stands for that  *)
(*    substring and "<BEL>" that stands for a non-blank control character).*)
(*  - An owner is "op" (the uid/gid of the invoking process) or "web" (the *)
(*    configured web_user/web_group).  A system call fails only for a      *)
(*    reason the modelled state decides: ENOENT, EEXIST, EISDIR, and EPERM *)
(*    when the invoking process is not privileged.                         *)
(*  - Timestamps are positive integers; Utc::now() is later than every     *)
(*    timestamp written before it.  0 stands for NULL.                     *)
(***************************************************************************)
EXTENDS Integers, Sequences, FiniteSets, TLC

VARIABLES
    env,      \* what the build and the host decide: foreign-key enforcement, the accounts
              \* that exist, whether the invoking process is privileged
    base,     \* the base directory: entry name -> entry
    sources,  \* the operator's own files (outside the base directory) that exist
    files,    \* ledger table files: uuid -> row
    shares,   \* ledger table shares: <<uuid, recipient>> -> row
    clock,    \* the latest timestamp written to the ledger
    used,     \* how many identifiers Uuid::new_v4() has produced
    proc      \* per invocation slot: the running (or last finished) command

vars == <<env, base, sources, files, shares, clock, used, proc>>

(***************************************************************************)
(* Bounds of the model.                                                    *)
(***************************************************************************)
MaxFiles == 2
MaxTime == 4
MaxIndex == 2
MaxDepth == 2
MaxNodes == 4
MaxName == 3
MaxHashBytes == 34
MaxRows == 3

Procs == {1, 2}
Operator == {1}
Recipients == {"bob", "eve"}

(***************************************************************************)
(* Program constants.                                                      *)
(***************************************************************************)
OwnerOnlyDir == 448     \* 0o700
OwnerOnlyFile == 384    \* 0o600
DirMode == 488          \* 0o750
FileMode == 416         \* 0o640
DefaultHashBytes == 7
MaxDigestBytes == 32    \* a BLAKE3 digest is 32 bytes long

\* The Config that load_or_create writes when there is none.
DefaultConfig ==
    [hash_secret |-> "k", web_user |-> "www-data", web_group |-> "www-data",
     hash_bytes |-> DefaultHashBytes]

\* Modes a freshly created directory (0o777 minus the umask: 0o755, 0o750,
\* 0o700) and a copied file (fs::copy keeps the source's mode: 0o644, 0o640,
\* 0o600) can have.
CreateDirModes == {493, 488, 448}
CopyFileModes == {420, 416, 384}
\* NamedTempFile creates its file with mode 0o600.
TempFileMode == OwnerOnlyFile

GroupOrOtherBits(mode) == mode % 64
OtherBits(mode) == mode % 8

(***************************************************************************)
(* Identifiers.  Uuid::new_v4 never repeats; GhostUuid is a well-formed    *)
(* identifier the operator can type that the store never produced.         *)
(***************************************************************************)
Uuid(i) == "u" \o ToString(i)
GhostUuid == Uuid(0)
ProducedUuids == {Uuid(i) : i \in 1..used}

(***************************************************************************)
(* Characters and file names.                                              *)
(***************************************************************************)
IsWhitespace(c) == c \in {" ", "\t", "\n"}
IsControl(c) == c \in {"\t", "\n", "<BEL>"}
IsForbiddenPunct(c) == c \in {"<", ">", ":", "\"", "|", "?", "*"}

RECURSIVE TrimStart(_), TrimEnd(_), TrimStartDots(_)
TrimStart(s) == IF s # <<>> /\ IsWhitespace(Head(s)) THEN TrimStart(Tail(s)) ELSE s
TrimEnd(s) ==
    IF s # <<>> /\ IsWhitespace(s[Len(s)]) THEN TrimEnd(SubSeq(s, 1, Len(s) - 1)) ELSE s
Trim(s) == TrimEnd(TrimStart(s))
TrimStartDots(s) == IF s # <<>> /\ Head(s) = "." THEN TrimStartDots(Tail(s)) ELSE s

ContainsChar(s, c) == \E i \in DOMAIN s : s[i] = c
ContainsDotDot(s) == \E i \in 1..(Len(s) - 1) : s[i] = "." /\ s[i + 1] = "."

Ok(v) == [ok |-> TRUE, val |-> v, err |-> ""]
Err(e) == [ok |-> FALSE, val |-> <<>>, err |-> e]

\* A sanitizer that trims and refuses only the empty name.
sanitize_nothing(name) ==
    IF Trim(name) = <<>> THEN Err("Empty filename not allowed") ELSE Ok(Trim(name))

sanitize_filename(name) ==
    LET trimmed == Trim(name)
        undotted == TrimStartDots(trimmed)
    IN  IF trimmed = <<>> THEN Err("Empty filename not allowed")
        ELSE IF ContainsChar(trimmed, "/") \/ ContainsChar(trimmed, "\\")
                \/ ContainsDotDot(trimmed)
        THEN Err("Invalid characters in filename")
        ELSE IF undotted = <<>> THEN Err("Invalid filename (hidden files not allowed)")
        ELSE IF \E i \in DOMAIN undotted :
                    IsControl(undotted[i]) \/ IsForbiddenPunct(undotted[i])
        THEN Err("Invalid characters in filename")
        ELSE Ok(undotted)

\* A path the operator names: its directory and its last component.
HomePath(file) == [dir |-> "/home/op", file |-> file]
StdinPath == [dir |-> "", file |-> <<"-">>]
\* Path::file_name: none when the path ends in "..".
file_name(path) ==
    IF path.file = <<>> \/ path.file = <<".", ".">> THEN Err("Invalid filename")
    ELSE Ok(path.file)
ContainsTempMarker(path) == ContainsChar(path.file, "slink_temp_")

(***************************************************************************)
(* The link token.  The keyed hash is taken to be collision-free on its    *)
(* message, the identifier followed by the recipient with no separator;    *)
(* identifiers have one length, so the message determines both.  The       *)
(* digest is cut to hash_bytes bytes: none are left when hash_bytes is 0,  *)
(* and the slice panics beyond the digest's 32 bytes.                      *)
(***************************************************************************)
HashPanics(hash_bytes) == hash_bytes > MaxDigestBytes
\* A token that is derived from the identifier alone.
hash_of_uuid_only(uuid, recipient, secret, hash_bytes) ==
    IF hash_bytes = 0 THEN "" ELSE secret \o "#" \o uuid
calculate_share_hash(uuid, recipient, secret, hash_bytes) ==
    IF hash_bytes = 0 THEN "" ELSE secret \o "#" \o uuid \o recipient

(***************************************************************************)
(* The base directory.  An entry is a symbolic link (its stored target) or *)
(* a tree: a function from paths below the entry (<<>> is the entry        *)
(* itself) to nodes [kind, owner, mode].                                   *)
(***************************************************************************)
Node(kind, owner, mode) == [kind |-> kind, owner |-> owner, mode |-> mode]
TreeEntry(tree) == [link |-> FALSE, target |-> "", tree |-> tree]
LinkEntry(target) == [link |-> TRUE, target |-> target, tree |-> <<>>]

IsLink(b, n) == n \in DOMAIN b /\ b[n].link
\* The entry a path of the base directory names once a symbolic link is followed
\* (stat, chown and chmod follow it; a stored target is relative to the base directory).
Follow(b, n) == IF IsLink(b, n) THEN b[n].target ELSE n
\* Path::exists: false for a link whose target is missing.
PathExists(b, n) == n \in DOMAIN b /\ Follow(b, n) \in DOMAIN b /\ ~IsLink(b, Follow(b, n))
\* Path::is_dir, which follows links too.
PathIsDir(b, n) == PathExists(b, n) /\ b[Follow(b, n)].tree[<<>>].kind = "dir"

Without(f, k) == [x \in DOMAIN f \ {k} |-> f[x]]
WithEntry(b, n, e) == [x \in DOMAIN b \cup {n} |-> IF x = n THEN e ELSE b[x]]
WithNode(b, n, path, node) ==
    [b EXCEPT ![n].tree = [q \in DOMAIN b[n].tree \cup {path} |->
                              IF q = path THEN node ELSE b[n].tree[q]]]
SetMode(b, n, path, mode) == [b EXCEPT ![n].tree[path].mode = mode]
SetOwner(b, n, path, owner) == [b EXCEPT ![n].tree[path].owner = owner]

IsPrefix(n, m) == Len(n) <= Len(m) /\ SubSeq(m, 1, Len(n)) = n
Children(tree, n) == {m \in DOMAIN tree : Len(m) = Len(n) + 1 /\ IsPrefix(n, m)}
Below(tree, n) == {m \in DOMAIN tree : Len(m) > Len(n) /\ IsPrefix(n, m)}

\* Every link of the base directory, whatever its target.
AllLinks(b, uuid) == {n \in DOMAIN b : b[n].link}
\* The links read_link finds to have a target that ends with the identifier.
LinksTo(b, uuid) == {n \in DOMAIN b : b[n].link /\ b[n].target = uuid}

(***************************************************************************)
(* The ledger.                                                             *)
(***************************************************************************)
FileRow(filename, date) == [filename |-> filename, date_added |-> date]
ShareRow(hash, shared, removed, active) ==
    [share_hash |-> hash, date_shared |-> shared, date_removed |-> removed, active |-> active]
SharesOf(sh, uuid) == {k \in DOMAIN sh : k[1] = uuid}

\* A lookup that finds a row for every identifier.
find_unchecked(fl, uuid) == TRUE

\* FileShare::find_by_uuid
find_by_uuid(fl, uuid) == uuid \in DOMAIN fl

\* FileShare::find_by_name: the identifiers of the rows with that filename, by date_added.
RECURSIVE ByDate(_, _)
ByDate(fl, S) ==
    IF S = {} THEN <<>>
    ELSE LET first == CHOOSE u \in S : \A v \in S : fl[u].date_added <= fl[v].date_added
         IN  <<first>> \o ByDate(fl, S \ {first})
find_by_name(fl, filename) == ByDate(fl, {u \in DOMAIN fl : fl[u].filename = filename})

\* A file specifier as resolve_file_spec reads it: whether the text is 36 characters
\* long with 4 dashes, the number of parts between '/', the first part, and the second
\* part parsed as usize (-1 when it does not parse).
UuidSpec(uuid) == [uuidlike |-> TRUE, uuid |-> uuid, parts |-> 1, name |-> <<>>, index |-> 0]
NameSpec(name) == [uuidlike |-> FALSE, uuid |-> "", parts |-> 1, name |-> name, index |-> 0]
IndexSpec(name, index) ==
    [uuidlike |-> FALSE, uuid |-> "", parts |-> 2, name |-> name, index |-> index]
LongSpec(name) == [uuidlike |-> FALSE, uuid |-> "", parts |-> 3, name |-> name, index |-> 0]

\* A resolution that takes the index as it is given, counting from 0.
resolve_from_zero(fl, spec, overflow_checks) ==
    IF spec.uuidlike THEN Ok(spec.uuid)
    ELSE IF spec.parts = 2 /\ spec.index < 0 THEN Err("Invalid index format")
    ELSE IF spec.parts > 2 THEN Err("Invalid file specification")
    ELSE LET index == IF spec.parts = 1 THEN 0 ELSE spec.index
             matches == find_by_name(fl, spec.name)
         IN  IF matches = <<>> THEN Err("File not found")
             ELSE IF Len(matches) > 1 /\ spec.parts = 1 THEN Err("Please specify file index")
             ELSE IF index + 1 <= Len(matches) THEN Ok(matches[index + 1])
             ELSE Err("Invalid file index")

\* Ok(identifier) or Err(message).  index - 1 underflows for index 0: a panic in a
\* build with overflow checks, otherwise usize::MAX, which no match has.
resolve_file_spec(fl, spec, overflow_checks) ==
    IF spec.uuidlike THEN Ok(spec.uuid)
    ELSE IF spec.parts = 2 /\ spec.index < 0 THEN Err("Invalid index format")
    ELSE IF spec.parts > 2 THEN Err("Invalid file specification")
    ELSE LET index == IF spec.parts = 1 THEN 1 ELSE spec.index
             matches == find_by_name(fl, spec.name)
         IN  IF matches = <<>> THEN Err("File not found")
             ELSE IF Len(matches) > 1 /\ spec.parts = 1 THEN Err("Please specify file index")
             ELSE IF index = 0 /\ overflow_checks THEN Err("panic")
             ELSE IF index >= 1 /\ index <= Len(matches) THEN Ok(matches[index])
             ELSE Err("Invalid file index")

(***************************************************************************)
(* Invocations.  A slot holds the command it runs: where it is, its        *)
(* arguments and locals, its outcome, and the state it started in.         *)
(***************************************************************************)
NoPath == [dir |-> "", file |-> <<>>]
NoSnapshot == [base |-> <<>>, files |-> <<>>, shares |-> <<>>]
IdleProc ==
    [pc |-> "idle", op |-> "", uuid |-> "", recipient |-> "", token |-> "",
     filename |-> <<>>, final_path |-> NoPath, stack |-> <<>>, todo |-> {}, rfa |-> "",
     force |-> FALSE, answer |-> <<>>, input |-> <<>>, status |-> "", note |-> "",
     pre |-> NoSnapshot]

\* Utc::now(): later than every timestamp the ledger holds.
Now == clock + 1

Snapshot == [base |-> base, files |-> files, shares |-> shares]

\* A command starts, in the state Snapshot.
Begin(p, op) == [IdleProc EXCEPT !.op = op, !.pre = Snapshot]
\* A command returns: "ok" or "err", with the error or with what a successful call skipped.
Return(q, status, note) == [q EXCEPT !.pc = "done", !.status = status, !.note = note]

Idle(p) == proc[p].pc = "idle"
At(p, op, pc) == proc[p].op = op /\ proc[p].pc = pc
Returned(p, op, status) == At(p, op, "done") /\ proc[p].status = status

\* What an operator can type as a file: an identifier the store produced, one it never
\* produced, a name, a name with an index.
FileSpecs ==
    {UuidSpec(u) : u \in ProducedUuids \cup {GhostUuid}}
    \cup {NameSpec(<<"a">>), NameSpec(<<"z">>), LongSpec(<<"a">>)}
    \cup {IndexSpec(<<"a">>, i) : i \in -1..MaxIndex}

\* The operator's own files, and what the operator passes to add: a path and, or not,
\* a name.
OperatorFiles == {HomePath(<<"a">>), HomePath(<<"slink_temp_", "a">>)}
NoName == [some |-> FALSE, val |-> <<>>]
SomeName(n) == [some |-> TRUE, val |-> n]
AddInputs ==
    {[path |-> HomePath(<<"a">>), name |-> NoName],
     [path |-> StdinPath, name |-> SomeName(<<" ", ".", "a">>)],
     [path |-> HomePath(<<"a">>), name |-> SomeName(<<"/", "a">>)],
     [path |-> HomePath(<<".", ".">>), name |-> NoName]}

\* The accounts of the host: the configured web user and web group exist.
HostAccounts == {"www-data:user", "www-data:group"}

Init ==
    /\ env \in [foreign_keys : BOOLEAN, privileged : BOOLEAN, accounts : {HostAccounts}]
    /\ base = <<>>
    /\ sources = OperatorFiles
    /\ files = <<>>
    /\ shares = <<>>
    /\ clock = 0
    /\ used = 0
    /\ proc = [p \in Procs |-> IdleProc]

TokenOf(uuid, recipient) ==
    calculate_share_hash(uuid, recipient, DefaultConfig.hash_secret, DefaultConfig.hash_bytes)

(***************************************************************************)
(* share: commands::share_file and ShareInfo::share.                       *)
(***************************************************************************)
\* share_file resolves the specifier; ShareInfo::share derives the token.
ShareBegin(p) ==
    /\ Idle(p)
    /\ clock < MaxTime
    /\ \E spec \in FileSpecs, recipient \in Recipients, overflow_checks \in BOOLEAN :
         LET r == resolve_file_spec(files, spec, overflow_checks)
             q == Begin(p, "share")
         IN  proc' = [proc EXCEPT ![p] =
                 IF ~r.ok THEN Return(q, "err", r.err)
                 ELSE IF HashPanics(DefaultConfig.hash_bytes) THEN Return(q, "err", "panic")
                 ELSE [q EXCEPT !.pc = "sh_unlink", !.uuid = r.val, !.recipient = recipient,
                                !.token = TokenOf(r.val, recipient)]]
    /\ UNCHANGED <<env, base, sources, files, shares, clock, used>>

\* if source.exists() { fs::remove_file(&source)? }
ShareUnlinkOld(p) ==
    /\ At(p, "share", "sh_unlink")
    /\ LET q == proc[p]
       IN  IF ~PathExists(base, q.token)
           THEN /\ proc' = [proc EXCEPT ![p].pc = "sh_symlink"]
                /\ base' = base
           ELSE IF PathIsDir(base, q.token) /\ ~IsLink(base, q.token)
           THEN /\ proc' = [proc EXCEPT ![p] = Return(q, "err", "EISDIR")]
                /\ base' = base
           ELSE /\ proc' = [proc EXCEPT ![p].pc = "sh_symlink"]
                /\ base' = Without(base, q.token)
    /\ UNCHANGED <<env, sources, files, shares, clock, used>>

\* A link that stores the absolute path of the file directory instead.
SymlinkTargetAbsolute(uuid) == "base/" \o uuid
\* The first argument of unix_symlink: the identifier, a name relative to the base
\* directory the link is in.
SymlinkTarget(uuid) == uuid

\* unix_symlink(uuid, source)?
ShareSymlink(p) ==
    /\ At(p, "share", "sh_symlink")
    /\ LET q == proc[p]
       IN  IF q.token \in DOMAIN base
           THEN /\ proc' = [proc EXCEPT ![p] = Return(q, "err", "EEXIST")]
                /\ base' = base
           ELSE /\ proc' = [proc EXCEPT ![p].pc = "sh_insert"]
                /\ base' = WithEntry(base, q.token, LinkEntry(SymlinkTarget(q.uuid)))
    /\ UNCHANGED <<env, sources, files, shares, clock, used>>

\* An insert that, on a row of the same key, sets the columns it names and keeps the
\* others.
InsertOrUpdate(sh, k, row) ==
    IF k \in DOMAIN sh
    THEN [sh EXCEPT ![k].share_hash = row.share_hash, ![k].date_shared = row.date_shared,
                    ![k].active = row.active]
    ELSE WithEntry(sh, k, row)
\* INSERT OR REPLACE under PRIMARY KEY (uuid, recipient): a row of the same key is
\* deleted, and the new row has NULL in the columns the statement does not name.
InsertOrReplace(sh, k, row) == WithEntry(sh, k, row)

\* INSERT OR REPLACE INTO shares (uuid, recipient, share_hash, date_shared, active)
ShareInsert(p) ==
    /\ At(p, "share", "sh_insert")
    /\ LET q == proc[p]
       IN  IF env.foreign_keys /\ q.uuid \notin DOMAIN files
           THEN /\ proc' = [proc EXCEPT ![p] = Return(q, "err", "FOREIGN KEY constraint failed")]
                /\ shares' = shares
           ELSE /\ proc' = [proc EXCEPT ![p].pc = "sh_find"]
                /\ shares' = InsertOrReplace(shares, <<q.uuid, q.recipient>>,
                                             ShareRow(q.token, Now, 0, TRUE))
    /\ clock' = IF shares' # shares THEN Now ELSE clock
    /\ UNCHANGED <<env, base, sources, files, used>>

\* FileShare::find_by_uuid(&conn, &uuid)?.ok_or_else(|| anyhow!("File not found"))?
ShareFind(p) ==
    /\ At(p, "share", "sh_find")
    /\ proc' = [proc EXCEPT ![p] =
           IF find_by_uuid(files, proc[p].uuid) THEN Return(proc[p], "ok", "")
           ELSE Return(proc[p], "err", "File not found")]
    /\ UNCHANGED <<env, base, sources, files, shares, clock, used>>

(***************************************************************************)
(* unshare: commands::unshare_file and ShareInfo::unshare.                 *)
(***************************************************************************)
UnshareBegin(p) ==
    /\ Idle(p)
    /\ clock < MaxTime
    /\ \E spec \in FileSpecs, recipient \in Recipients, overflow_checks \in BOOLEAN :
         LET r == resolve_file_spec(files, spec, overflow_checks)
             q == Begin(p, "unshare")
         IN  proc' = [proc EXCEPT ![p] =
                 IF ~r.ok THEN Return(q, "err", r.err)
                 ELSE IF HashPanics(DefaultConfig.hash_bytes) THEN Return(q, "err", "panic")
                 ELSE [q EXCEPT !.pc = "un_unlink", !.uuid = r.val, !.recipient = recipient,
                                !.token = TokenOf(r.val, recipient)]]
    /\ UNCHANGED <<env, base, sources, files, shares, clock, used>>

\* An unshare that leaves the link where it is.
UnshareKeepsLink(p) ==
    /\ At(p, "unshare", "un_unlink")
    /\ proc' = [proc EXCEPT ![p].pc = "un_update"]
    /\ UNCHANGED <<env, base, sources, files, shares, clock, used>>

\* if symlink.exists() { fs::remove_file(symlink)? }
UnshareUnlink(p) ==
    /\ At(p, "unshare", "un_unlink")
    /\ LET q == proc[p]
       IN  IF ~PathExists(base, q.token)
           THEN /\ proc' = [proc EXCEPT ![p].pc = "un_update"]
                /\ base' = base
           ELSE IF PathIsDir(base, q.token) /\ ~IsLink(base, q.token)
           THEN /\ proc' = [proc EXCEPT ![p] = Return(q, "err", "EISDIR")]
                /\ base' = base
           ELSE /\ proc' = [proc EXCEPT ![p].pc = "un_update"]
                /\ base' = Without(base, q.token)
    /\ UNCHANGED <<env, sources, files, shares, clock, used>>

\* UPDATE shares SET active = 0, date_removed = ? WHERE uuid = ? AND recipient = ? AND active = 1
UnshareUpdate(p) ==
    /\ At(p, "unshare", "un_update")
    /\ LET q == proc[p]
           k == <<q.uuid, q.recipient>>
       IN  /\ shares' = IF k \in DOMAIN shares /\ shares[k].active
                        THEN [shares EXCEPT ![k].active = FALSE, ![k].date_removed = Now]
                        ELSE shares
           /\ proc' = [proc EXCEPT ![p] = Return(q, "ok", "")]
    /\ clock' = IF shares' # shares THEN Now ELSE clock
    /\ UNCHANGED <<env, base, sources, files, used>>

(***************************************************************************)
(* set_permissions_recursive on the tree of base/<uuid>, one system call   *)
(* at a step.  The stack holds one frame per active call: the node, where  *)
(* the call is, and the children read_dir has yet to yield.                *)
(***************************************************************************)
Frame(node, pc, todo) == [node |-> node, pc |-> pc, todo |-> todo]
Top(q) == q.stack[Len(q.stack)]
SetTop(q, frame) == [q EXCEPT !.stack[Len(q.stack)] = frame]
Pop(q) == [q EXCEPT !.stack = SubSeq(q.stack, 1, Len(q.stack) - 1)]
Push(q, frame) == [q EXCEPT !.stack = Append(q.stack, frame)]
Walking(p, pc) == proc[p].pc = "walk" /\ Top(proc[p]).pc = pc
NodeExists(b, uuid, node) == uuid \in DOMAIN b /\ ~b[uuid].link /\ node \in DOMAIN b[uuid].tree
NodeIsDir(b, uuid, node) == NodeExists(b, uuid, node) /\ b[uuid].tree[node].kind = "dir"

\* chmod is for the owner and the privileged; chown to another owner is for the
\* privileged only.
MayChmod(b, n, node) == env.privileged \/ b[n].tree[node].owner = "op"
MayChown(b, n, node, owner) ==
    env.privileged \/ (b[n].tree[node].owner = "op" /\ owner = "op")

\* A lockdown that does not look the accounts up.
IdentityUnchecked(config) == ""

\* users::get_user_by_name, users::get_group_by_name
IdentityError(config) ==
    IF (config.web_user \o ":user") \notin env.accounts THEN "User not found"
    ELSE IF (config.web_group \o ":group") \notin env.accounts THEN "Group not found"
    ELSE ""

\* A first chmod that leaves group and others what a umask of 022 gave them.
RestrictedModeWide(is_dir) == IF is_dir THEN 493 ELSE 420
\* The mode of the first chmod: 0o700 for a directory, 0o600 for anything else.
RestrictedMode(is_dir) == IF is_dir THEN OwnerOnlyDir ELSE OwnerOnlyFile
\* The mode of the last chmod: dir_mode for a directory, file_mode for anything else.
FinalMode(is_dir) == IF is_dir THEN DirMode ELSE FileMode

\* A walk that does not wait for the entries of a directory.
ChildrenSkipped(frame) == TRUE
\* The for loop over fs::read_dir(path) has ended.
ChildrenDone(frame) == frame.todo = {}

\* The accounts are resolved, then set_permissions(path, 0o700) for a directory,
\* set_permissions(path, 0o600) for anything else.
WalkEnter(p) ==
    /\ Walking(p, "enter")
    /\ LET q == proc[p]
           node == Top(q).node
       IN  IF IdentityError(DefaultConfig) # ""
           THEN /\ proc' = [proc EXCEPT ![p] = Return(q, "err", IdentityError(DefaultConfig))]
                /\ base' = base
           ELSE IF ~NodeExists(base, q.uuid, node)
           THEN /\ proc' = [proc EXCEPT ![p] = Return(q, "err", "ENOENT")]
                /\ base' = base
           ELSE IF ~MayChmod(base, q.uuid, node)
           THEN /\ proc' = [proc EXCEPT ![p] = Return(q, "err", "EPERM")]
                /\ base' = base
           ELSE /\ proc' = [proc EXCEPT ![p] = SetTop(q, Frame(node, "own", {}))]
                /\ base' = SetMode(base, q.uuid, node,
                                   RestrictedMode(NodeIsDir(base, q.uuid, node)))
    /\ UNCHANGED <<env, sources, files, shares, clock, used>>

\* chown(path, current_uid, current_gid); for a directory, fs::read_dir(path) follows.
WalkChownCurrent(p) ==
    /\ Walking(p, "own")
    /\ LET q == proc[p]
           node == Top(q).node
       IN  IF ~NodeExists(base, q.uuid, node)
           THEN /\ proc' = [proc EXCEPT ![p] = Return(q, "err", "ENOENT")]
                /\ base' = base
           ELSE IF ~MayChown(base, q.uuid, node, "op")
           THEN /\ proc' = [proc EXCEPT ![p] = Return(q, "err", "EPERM")]
                /\ base' = base
           ELSE /\ proc' = [proc EXCEPT ![p] =
                       SetTop(q, Frame(node, "kids",
                                       IF NodeIsDir(base, q.uuid, node)
                                       THEN Children(base[q.uuid].tree, node) ELSE {}))]
                /\ base' = SetOwner(base, q.uuid, node, "op")
    /\ UNCHANGED <<env, sources, files, shares, clock, used>>

\* The recursive call on the next entry of the directory.
WalkDescend(p) ==
    /\ Walking(p, "kids")
    /\ LET q == proc[p]
           top == Top(q)
       IN  \E child \in top.todo :
               proc' = [proc EXCEPT ![p] =
                   Push(SetTop(q, Frame(top.node, "kids", top.todo \ {child})),
                        Frame(child, "enter", {}))]
    /\ UNCHANGED <<env, base, sources, files, shares, clock, used>>

\* set_permissions(path, dir_mode) or set_permissions(path, file_mode), once no entry is left.
WalkChmodFinal(p) ==
    /\ Walking(p, "kids")
    /\ ChildrenDone(Top(proc[p]))
    /\ LET q == proc[p]
           node == Top(q).node
       IN  IF ~NodeExists(base, q.uuid, node)
           THEN /\ proc' = [proc EXCEPT ![p] = Return(q, "err", "ENOENT")]
                /\ base' = base
           ELSE IF ~MayChmod(base, q.uuid, node)
           THEN /\ proc' = [proc EXCEPT ![p] = Return(q, "err", "EPERM")]
                /\ base' = base
           ELSE /\ proc' = [proc EXCEPT ![p] = SetTop(q, Frame(node, "fin_own", {}))]
                /\ base' = SetMode(base, q.uuid, node,
                                   FinalMode(NodeIsDir(base, q.uuid, node)))
    /\ UNCHANGED <<env, sources, files, shares, clock, used>>

\* chown(path, web_uid, web_gid), and the call returns: to its caller's loop, or, from
\* the root, to add_file (in LockdownSpec, to the reclaim that follows).
WalkChownFinal(p) ==
    /\ Walking(p, "fin_own")
    /\ LET q == proc[p]
           node == Top(q).node
           popped == Pop(q)
       IN  IF ~NodeExists(base, q.uuid, node)
           THEN /\ proc' = [proc EXCEPT ![p] = Return(q, "err", "ENOENT")]
                /\ base' = base
           ELSE IF ~MayChown(base, q.uuid, node, "web")
           THEN /\ proc' = [proc EXCEPT ![p] = Return(q, "err", "EPERM")]
                /\ base' = base
           ELSE /\ proc' = [proc EXCEPT ![p] =
                       IF popped.stack # <<>> THEN popped
                       ELSE IF q.op = "add" THEN [popped EXCEPT !.pc = "add_insert"]
                       ELSE [popped EXCEPT !.pc = "rfa_chown", !.rfa = q.uuid]]
                /\ base' = SetOwner(base, q.uuid, node, "web")
    /\ UNCHANGED <<env, sources, files, shares, clock, used>>

(***************************************************************************)
(* add: commands::add_file.                                                *)
(***************************************************************************)
TempKey(p) == "slink_temp_" \o ToString(p)
TempPath(filename) == [dir |-> "base", file |-> <<"slink_temp_", "_">> \o filename]

\* The filename is settled; a stdin source is staged under the base directory
\* (handle_stdin_upload), any other source is read for its digest (calculate_file_hash).
AddBeginWith(p, inputs) ==
    /\ Idle(p)
    /\ clock < MaxTime
    /\ used < MaxFiles
    /\ \E in \in inputs :
         LET name == IF in.name.some THEN sanitize_filename(in.name.val)
                     ELSE file_name(in.path)
             q == Begin(p, "add")
         IN  IF ~name.ok
             THEN /\ proc' = [proc EXCEPT ![p] = Return(q, "err", name.err)]
                  /\ base' = base
             ELSE IF in.path = StdinPath
             THEN /\ proc' = [proc EXCEPT ![p] =
                         [q EXCEPT !.pc = "add_mkdir", !.filename = name.val,
                                   !.final_path = TempPath(name.val)]]
                  /\ base' = WithEntry(base, TempKey(p),
                                       TreeEntry(<<>> :> Node("file", "op", TempFileMode)))
             ELSE IF in.path \notin sources
             THEN /\ proc' = [proc EXCEPT ![p] = Return(q, "err", "ENOENT")]
                  /\ base' = base
             ELSE /\ proc' = [proc EXCEPT ![p] =
                         [q EXCEPT !.pc = "add_mkdir", !.filename = name.val,
                                   !.final_path = in.path]]
                  /\ base' = base
    /\ UNCHANGED <<env, sources, files, shares, clock, used>>

AddBegin(p) == AddBeginWith(p, AddInputs)

\* Uuid::new_v4(), create_dir_all(&target_dir)
AddMkdir(p) ==
    /\ At(p, "add", "add_mkdir")
    /\ \E mode \in CreateDirModes :
         base' = WithEntry(base, Uuid(used + 1), TreeEntry(<<>> :> Node("dir", "op", mode)))
    /\ used' = used + 1
    /\ proc' = [proc EXCEPT ![p].pc = "add_copy", ![p].uuid = Uuid(used + 1)]
    /\ UNCHANGED <<env, sources, files, shares, clock>>

\* fs::copy(&final_path, &target_file): the copy has the mode of its source.
AddCopy(p) ==
    /\ At(p, "add", "add_copy")
    /\ LET q == proc[p]
           staged == q.final_path.dir = "base"
           there == IF staged THEN TempKey(p) \in DOMAIN base ELSE q.final_path \in sources
       IN  IF ~there \/ ~NodeIsDir(base, q.uuid, <<>>)
           THEN /\ proc' = [proc EXCEPT ![p] = Return(q, "err", "ENOENT")]
                /\ base' = base
           ELSE /\ proc' = [proc EXCEPT ![p].pc = "add_cleanup"]
                /\ \E mode \in (IF staged THEN {base[TempKey(p)].tree[<<>>].mode}
                                ELSE CopyFileModes) :
                       base' = WithNode(base, q.uuid, <<q.filename>>, Node("file", "op", mode))
    /\ UNCHANGED <<env, sources, files, shares, clock, used>>

\* An add that goes from the copy to the INSERT, with no lockdown between them.
AddCleanupThenInsert(p) ==
    /\ At(p, "add", "add_cleanup")
    /\ proc' = [proc EXCEPT ![p].pc = "add_insert"]
    /\ base' = IF proc[p].final_path.dir = "base" THEN Without(base, TempKey(p)) ELSE base
    /\ UNCHANGED <<env, sources, files, shares, clock, used>>

\* if final_path.to_string_lossy().contains("slink_temp_") { fs::remove_file(&final_path)? }
\* and the lockdown starts at the new directory.
AddCleanup(p) ==
    /\ At(p, "add", "add_cleanup")
    /\ LET q == proc[p]
           walk == [q EXCEPT !.pc = "walk", !.stack = <<Frame(<<>>, "enter", {})>>]
       IN  IF ~ContainsTempMarker(q.final_path)
           THEN /\ proc' = [proc EXCEPT ![p] = walk]
                /\ UNCHANGED <<base, sources>>
           ELSE IF q.final_path.dir = "base"
           THEN /\ proc' = [proc EXCEPT ![p] =
                       IF TempKey(p) \in DOMAIN base THEN walk ELSE Return(q, "err", "ENOENT")]
                /\ base' = Without(base, TempKey(p))
                /\ sources' = sources
           ELSE /\ proc' = [proc EXCEPT ![p] =
                       IF q.final_path \in sources THEN walk ELSE Return(q, "err", "ENOENT")]
                /\ base' = base
                /\ sources' = sources \ {q.final_path}
    /\ UNCHANGED <<env, files, shares, clock, used>>

\* INSERT INTO files (uuid, filename, date_added)
AddInsert(p) ==
    /\ At(p, "add", "add_insert")
    /\ LET q == proc[p]
       IN  IF q.uuid \in DOMAIN files
           THEN /\ proc' = [proc EXCEPT ![p] = Return(q, "err", "UNIQUE constraint failed")]
                /\ files' = files
           ELSE /\ proc' = [proc EXCEPT ![p] = Return(q, "ok", "")]
                /\ files' = WithEntry(files, q.uuid, FileRow(q.filename, Now))
    /\ clock' = IF files' # files THEN Now ELSE clock
    /\ UNCHANGED <<env, base, sources, shares, used>>

(***************************************************************************)
(* remove_file_with_access(path) on the entry proc[p].rfa of the base      *)
(* directory.  chown, chmod and is_dir follow a symbolic link; the         *)
(* deletion does not (remove_dir_all removes a link itself).               *)
(***************************************************************************)
\* chown(path, current_uid, current_gid)
RfaChown(p) ==
    /\ proc[p].pc = "rfa_chown"
    /\ LET q == proc[p]
       IN  IF ~PathExists(base, q.rfa)
           THEN /\ proc' = [proc EXCEPT ![p] = Return(q, "err", "ENOENT")]
                /\ base' = base
           ELSE IF ~MayChown(base, Follow(base, q.rfa), <<>>, "op")
           THEN /\ proc' = [proc EXCEPT ![p] = Return(q, "err", "EPERM")]
                /\ base' = base
           ELSE /\ proc' = [proc EXCEPT ![p].pc = "rfa_chmod"]
                /\ base' = SetOwner(base, Follow(base, q.rfa), <<>>, "op")
    /\ UNCHANGED <<env, sources, files, shares, clock, used>>

\* A reclaim that takes ownership back and leaves the mode alone.
RfaChmodSkipped(p) ==
    /\ proc[p].pc = "rfa_chmod"
    /\ proc' = [proc EXCEPT ![p].pc = "rfa_delete"]
    /\ UNCHANGED <<env, base, sources, files, shares, clock, used>>

\* set_permissions(path, Permissions::from_mode(0o700))
RfaChmod(p) ==
    /\ proc[p].pc = "rfa_chmod"
    /\ LET q == proc[p]
       IN  IF ~PathExists(base, q.rfa)
           THEN /\ proc' = [proc EXCEPT ![p] = Return(q, "err", "ENOENT")]
                /\ base' = base
           ELSE IF ~MayChmod(base, Follow(base, q.rfa), <<>>)
           THEN /\ proc' = [proc EXCEPT ![p] = Return(q, "err", "EPERM")]
                /\ base' = base
           ELSE /\ proc' = [proc EXCEPT ![p].pc = "rfa_delete"]
                /\ base' = SetMode(base, Follow(base, q.rfa), <<>>, OwnerOnlyDir)
    /\ UNCHANGED <<env, sources, files, shares, clock, used>>

\* if path.is_dir() { remove_dir_all(path) } else { fs::remove_file(path) }, and the
\* return: to the sweep after a link, to the ledger update after the directory.
RfaDelete(p) ==
    /\ proc[p].pc = "rfa_delete"
    /\ LET q == proc[p]
       IN  IF q.rfa \notin DOMAIN base
           THEN /\ proc' = [proc EXCEPT ![p] = Return(q, "err", "ENOENT")]
                /\ base' = base
           ELSE IF ~PathIsDir(base, q.rfa) /\ ~IsLink(base, q.rfa)
                   /\ base[q.rfa].tree[<<>>].kind = "dir"
           THEN /\ proc' = [proc EXCEPT ![p] = Return(q, "err", "EISDIR")]
                /\ base' = base
           ELSE /\ proc' = [proc EXCEPT ![p] =
                       IF q.op # "remove" THEN Return(q, "ok", "")
                       ELSE IF q.rfa = q.uuid THEN [q EXCEPT !.pc = "rm_update"]
                       ELSE [q EXCEPT !.pc = "rm_sweep"]]
                /\ base' = Without(base, q.rfa)
    /\ UNCHANGED <<env, sources, files, shares, clock, used>>

(***************************************************************************)
(* rm: commands::remove_file and FileShare::remove.                        *)
(***************************************************************************)
\* --force, or the line the operator answers to the prompt.
Confirmations ==
    {[force |-> TRUE, answer |-> <<>>]}
    \cup {[force |-> FALSE, answer |-> a] :
             a \in {<<"y", "\n">>, <<" ", "Y", "\n">>, <<"n", "\n">>, <<"y", "e", "s", "\n">>,
                    <<"\n">>, <<>>}}
\* A prompt that takes every answer for a yes.
ConfirmsAnything(answer) == TRUE
\* input.trim().eq_ignore_ascii_case("y")
Confirms(answer) == Trim(answer) \in {<<"y">>, <<"Y">>}

\* remove_file resolves the specifier and looks the row up; FileShare::remove asks
\* unless forced, and opens the base directory for its sweep.
RemoveBegin(p) ==
    /\ Idle(p)
    /\ clock < MaxTime
    /\ \E spec \in FileSpecs, how \in Confirmations, overflow_checks \in BOOLEAN :
         LET r == resolve_file_spec(files, spec, overflow_checks)
             q == Begin(p, "remove")
             force == how.force
             answer == how.answer
             asked == [q EXCEPT !.uuid = r.val, !.force = force, !.answer = answer]
         IN  proc' = [proc EXCEPT ![p] =
                 IF ~r.ok THEN Return(q, "err", r.err)
                 ELSE IF ~find_by_uuid(files, r.val)
                 THEN Return([q EXCEPT !.uuid = r.val], "ok", "no such file")
                 ELSE IF ~force /\ ~Confirms(answer)
                 THEN Return(asked, "ok", "declined")
                 ELSE [asked EXCEPT !.pc = "rm_sweep", !.todo = DOMAIN base]]
    /\ UNCHANGED <<env, base, sources, files, shares, clock, used>>

\* The next entry read_link finds to be a link whose target ends with the identifier.
RemoveSweepLink(p) ==
    /\ At(p, "remove", "rm_sweep")
    /\ \E n \in proc[p].todo \cap LinksTo(base, proc[p].uuid) :
         proc' = [proc EXCEPT ![p].pc = "rfa_chown", ![p].rfa = n, ![p].todo = @ \ {n}]
    /\ UNCHANGED <<env, base, sources, files, shares, clock, used>>

\* No such entry is left: the file directory is next.
RemoveSweepDone(p) ==
    /\ At(p, "remove", "rm_sweep")
    /\ proc[p].todo \cap LinksTo(base, proc[p].uuid) = {}
    /\ proc' = [proc EXCEPT ![p].pc = "rfa_chown", ![p].rfa = proc[p].uuid, ![p].todo = {}]
    /\ UNCHANGED <<env, base, sources, files, shares, clock, used>>

\* A remove that goes to the DELETE without the UPDATE.
RemoveUpdateSkipped(p) ==
    /\ At(p, "remove", "rm_update")
    /\ proc' = [proc EXCEPT ![p].pc = "rm_delete"]
    /\ UNCHANGED <<env, base, sources, files, shares, clock, used>>

\* UPDATE shares SET active = 0, date_removed = ? WHERE uuid = ?
RemoveUpdateShares(p) ==
    /\ At(p, "remove", "rm_update")
    /\ shares' = [k \in DOMAIN shares |->
                     IF k[1] = proc[p].uuid
                     THEN [shares[k] EXCEPT !.active = FALSE, !.date_removed = Now]
                     ELSE shares[k]]
    /\ clock' = IF shares' # shares THEN Now ELSE clock
    /\ proc' = [proc EXCEPT ![p].pc = "rm_delete"]
    /\ UNCHANGED <<env, base, sources, files, used>>

\* A remove that returns without the DELETE.
RemoveKeepsRow(p) ==
    /\ At(p, "remove", "rm_delete")
    /\ proc' = [proc EXCEPT ![p] = Return(proc[p], "ok", "")]
    /\ UNCHANGED <<env, base, sources, files, shares, clock, used>>

\* DELETE FROM files WHERE uuid = ?
RemoveDeleteRow(p) ==
    /\ At(p, "remove", "rm_delete")
    /\ LET q == proc[p]
       IN  IF env.foreign_keys /\ SharesOf(shares, q.uuid) # {}
           THEN /\ proc' = [proc EXCEPT ![p] = Return(q, "err", "FOREIGN KEY constraint failed")]
                /\ files' = files
           ELSE /\ proc' = [proc EXCEPT ![p] = Return(q, "ok", "")]
                /\ files' = Without(files, q.uuid)
    /\ UNCHANGED <<env, base, sources, shares, clock, used>>

\* main returns: the process is gone, and another command can be given.
Exit(p) ==
    /\ proc[p].pc = "done"
    /\ proc' = [proc EXCEPT ![p] = IdleProc]
    /\ UNCHANGED <<env, base, sources, files, shares, clock, used>>

(***************************************************************************)
(* One operator, one command at a time.                                    *)
(***************************************************************************)
Next ==
    \E p \in Operator :
        \/ Exit(p)
        \/ AddBegin(p) \/ AddMkdir(p) \/ AddCopy(p) \/ AddCleanup(p) \/ AddInsert(p)
        \/ WalkEnter(p) \/ WalkChownCurrent(p) \/ WalkDescend(p)
        \/ WalkChmodFinal(p) \/ WalkChownFinal(p)
        \/ ShareBegin(p) \/ ShareUnlinkOld(p) \/ ShareSymlink(p) \/ ShareInsert(p)
        \/ ShareFind(p)
        \/ UnshareBegin(p) \/ UnshareUnlink(p) \/ UnshareUpdate(p)
        \/ RemoveBegin(p) \/ RemoveSweepLink(p) \/ RemoveSweepDone(p)
        \/ RfaChown(p) \/ RfaChmod(p) \/ RfaDelete(p)
        \/ RemoveUpdateShares(p) \/ RemoveDeleteRow(p)

Spec == Init /\ [][Next]_vars

(***************************************************************************)
(* set_permissions_recursive, then remove_file_with_access, on any small   *)
(* tree the operating identity has just created, on a host where the web   *)
(* accounts may be missing.                                                *)
(***************************************************************************)
TreeNames == {<<"a">>, <<"b">>}
TreePaths == UNION {[1..k -> TreeNames] : k \in 0..MaxDepth}
TreeShapes ==
    {S \in SUBSET TreePaths :
        /\ <<>> \in S
        /\ Cardinality(S) <= MaxNodes
        /\ \A m \in S : m # <<>> => SubSeq(m, 1, Len(m) - 1) \in S}
Leaves(S) == {n \in S : ~\E m \in S : Len(m) = Len(n) + 1 /\ IsPrefix(n, m)}
\* The modes of new directories and files under the umasks 022, 027 and 077.
CreationModes == {[dir |-> 493, file |-> 420], [dir |-> 488, file |-> 416],
                  [dir |-> 448, file |-> 384]}
FreshTrees ==
    UNION {{[n \in S |->
                LET kind == IF n \in Leaves(S) THEN kinds[n] ELSE "dir"
                IN  Node(kind, "op", IF kind = "dir" THEN modes.dir ELSE modes.file)] :
            kinds \in [Leaves(S) -> {"dir", "file"}], modes \in CreationModes} :
           S \in TreeShapes}

LockdownInit ==
    /\ env \in [foreign_keys : {FALSE}, privileged : BOOLEAN, accounts : SUBSET HostAccounts]
    /\ \E tree \in FreshTrees : base = (Uuid(1) :> TreeEntry(tree))
    /\ sources = OperatorFiles
    /\ files = <<>>
    /\ shares = <<>>
    /\ clock = 0
    /\ used = 1
    /\ proc = [p \in Procs |-> IdleProc]

\* set_permissions_recursive(path, 0o750, 0o640, web_user, web_group) is called.
LockdownBegin(p) ==
    /\ Idle(p)
    /\ Uuid(1) \in DOMAIN base
    /\ proc' = [proc EXCEPT ![p] =
           [Begin(p, "lockdown") EXCEPT !.pc = "walk", !.uuid = Uuid(1),
                                        !.stack = <<Frame(<<>>, "enter", {})>>]]
    /\ UNCHANGED <<env, base, sources, files, shares, clock, used>>

LockdownNext ==
    \E p \in Operator :
        \/ LockdownBegin(p) \/ Exit(p)
        \/ WalkEnter(p) \/ WalkChownCurrent(p) \/ WalkDescend(p)
        \/ WalkChmodFinal(p) \/ WalkChownFinal(p)
        \/ RfaChown(p) \/ RfaChmod(p) \/ RfaDelete(p)

LockdownSpec == LockdownInit /\ [][LockdownNext]_vars

(***************************************************************************)
(* The properties.  A command that has returned is at "done", with the     *)
(* state it started in as proc[p].pre.                                     *)
(***************************************************************************)
Quiescent == \A p \in Procs : proc[p].pc \in {"idle", "done"}
Resolved(p) == proc[p].token # ""
IsFinal(nd) == nd.owner = "web" /\ nd.mode = (IF nd.kind = "dir" THEN DirMode ELSE FileMode)
IsStored(s, uuid) == uuid \in DOMAIN s.files /\ PathIsDir(s.base, uuid) /\ ~IsLink(s.base, uuid)
HasActiveGrant(s, uuid, recipient) ==
    <<uuid, recipient>> \in DOMAIN s.shares /\ s.shares[<<uuid, recipient>>].active

\* C1: between commands, a share row is active exactly when a symbolic link named by
\* the row's token is in the base directory.
C1_ActiveIffLinked ==
    Quiescent =>
        \A k \in DOMAIN shares : shares[k].active <=> IsLink(base, shares[k].share_hash)

\* The entries of base/<uuid> that the lockdown of an add has not reached yet: all of
\* them before it starts, then those below a call that has not listed its directory
\* and those a listing has still to yield.
Untouched(q) ==
    IF q.pc \in {"add_copy", "add_cleanup"} THEN DOMAIN base[q.uuid].tree
    ELSE {n \in DOMAIN base[q.uuid].tree :
            \E i \in 1..Len(q.stack) :
                \/ q.stack[i].pc = "enter" /\ IsPrefix(q.stack[i].node, n)
                \/ q.stack[i].pc = "own" /\ IsPrefix(q.stack[i].node, n) /\ n # q.stack[i].node
                \/ \E c \in q.stack[i].todo : IsPrefix(c, n)}
\* An add that has made its directory, or a remove, is at work on base/<uuid>.
InFlight(p) ==
    /\ proc[p].op \in {"add", "remove"}
    /\ proc[p].pc \notin {"idle", "done", "add_mkdir"}
    /\ proc[p].uuid \in DOMAIN base
    /\ ~base[proc[p].uuid].link

\* C2, as stated: at every step of add and of remove, every entry of the file
\* directory is owned by the operating identity with no group or other bit, or owned
\* by the service identity with its final mode.
C2_NeverGroupAccessible ==
    \A p \in Procs : InFlight(p) =>
        \A n \in DOMAIN base[proc[p].uuid].tree :
            LET nd == base[proc[p].uuid].tree[n]
            IN  \/ nd.owner = "op" /\ GroupOrOtherBits(nd.mode) = 0
                \/ IsFinal(nd)

\* C2, amended: an entry the lockdown has not reached is the operating identity's, with
\* the mode it was created with; from then on, and all through remove, it is the
\* operating identity's with mode 0700 (0600 for a file) or with its final mode, or
\* the service identity's with its final mode, and it never has a bit for others.
C2_HandoverStates ==
    \A p \in Procs : InFlight(p) =>
        \A n \in DOMAIN base[proc[p].uuid].tree :
            LET nd == base[proc[p].uuid].tree[n]
                own == IF nd.kind = "dir" THEN OwnerOnlyDir ELSE OwnerOnlyFile
                fin == IF nd.kind = "dir" THEN DirMode ELSE FileMode
            IN  IF n \in Untouched(proc[p]) THEN nd.owner = "op"
                ELSE /\ nd.owner = "web" => nd.mode = fin
                     /\ nd.owner = "op" => nd.mode \in {own, fin}
                     /\ OtherBits(nd.mode) = 0
\* An add is between the last chmod of the stored file and its chown: the file is the
\* operating identity's and its group can read it.
C2_Witness ==
    \E p \in Procs :
        /\ proc[p].op = "add" /\ Walking(p, "fin_own")
        /\ LET nd == base[proc[p].uuid].tree[Top(proc[p]).node]
           IN  nd.kind = "file" /\ nd.owner = "op" /\ nd.mode = FileMode
                /\ GroupOrOtherBits(nd.mode) # 0

\* C3: in every state of a lockdown, a directory that has its final mode and the
\* service identity as owner has only such entries below it.
C3_PostOrder ==
    \A u \in DOMAIN base : ~base[u].link =>
        \A d \in DOMAIN base[u].tree :
            (base[u].tree[d].kind = "dir" /\ IsFinal(base[u].tree[d])) =>
                \A m \in Below(base[u].tree, d) : IsFinal(base[u].tree[m])
\* A lockdown is under way: a directory with entries is final and the root is not.
C3_Witness ==
    \E p \in Procs :
        /\ proc[p].op = "lockdown" /\ proc[p].pc = "walk"
        /\ LET tree == base[proc[p].uuid].tree
           IN  /\ ~IsFinal(tree[<<>>])
               /\ \E d \in DOMAIN tree :
                     d # <<>> /\ tree[d].kind = "dir" /\ IsFinal(tree[d])
                     /\ Below(tree, d) # {}

\* C4: when a remove that was not declined has returned success for an identifier,
\* base/<identifier> is gone, files has no row for it, no link of the base directory
\* has it as target, and each of its share rows is inactive with a revocation time.
C4_RemoveLeavesNothing ==
    \A p \in Procs :
        (Returned(p, "remove", "ok") /\ proc[p].note # "declined") =>
            LET I == proc[p].uuid
            IN  /\ I \notin DOMAIN base
                /\ I \notin DOMAIN files
                /\ LinksTo(base, I) = {}
                /\ \A k \in SharesOf(shares, I) :
                       ~shares[k].active /\ shares[k].date_removed # 0

\* The grant of a stored file is published: the row is active and the link named by
\* its token leads to the file directory.
Published(s, uuid, recipient) ==
    /\ IsStored(s, uuid)
    /\ HasActiveGrant(s, uuid, recipient)
    /\ LET T == s.shares[<<uuid, recipient>>].share_hash
       IN  IsLink(s.base, T) /\ s.base[T].target = uuid

\* C5: an unshare of a published grant of a stored file succeeds; it derives the
\* token share recorded, base/<token> is gone, and the row is inactive with a
\* revocation time.
C5_UnshareUndoesShare ==
    \A p \in Procs :
        (At(p, "unshare", "done") /\ Resolved(p)
         /\ Published(proc[p].pre, proc[p].uuid, proc[p].recipient)) =>
            LET k == <<proc[p].uuid, proc[p].recipient>>
            IN  /\ proc[p].status = "ok"
                /\ proc[p].token = proc[p].pre.shares[k].share_hash
                /\ proc[p].token \notin DOMAIN base
                /\ k \in DOMAIN shares
                /\ ~shares[k].active
                /\ shares[k].date_removed # 0
\* Such an unshare has returned.
C5_Witness ==
    \E p \in Procs :
        /\ Returned(p, "unshare", "ok")
        /\ Published(proc[p].pre, proc[p].uuid, proc[p].recipient)

\* C6: when share has returned success, base/<token> is a symbolic link whose stored
\* target is the identifier itself, a name relative to the base directory, and the
\* row of the grant is active and records the token.
C6_ShareLinksAndRecords ==
    \A p \in Procs :
        Returned(p, "share", "ok") =>
            LET k == <<proc[p].uuid, proc[p].recipient>>
                T == proc[p].token
            IN  /\ IsLink(base, T)
                /\ base[T].target = proc[p].uuid
                /\ k \in DOMAIN shares
                /\ shares[k].active
                /\ shares[k].share_hash = T
\* A share of a stored file has returned success, for a grant revoked before.
C6_Witness ==
    \E p \in Procs :
        /\ Returned(p, "share", "ok")
        /\ IsStored([base |-> base, files |-> files], proc[p].uuid)
        /\ <<proc[p].uuid, proc[p].recipient>> \in DOMAIN proc[p].pre.shares
        /\ ~proc[p].pre.shares[<<proc[p].uuid, proc[p].recipient>>].active

\* C7: a share that finds an entry at base/<token>, be it a link whose target is
\* missing, does not fail because the entry exists.
C7_ShareReplaces ==
    \A p \in Procs :
        (At(p, "share", "done") /\ Resolved(p) /\ proc[p].token \in DOMAIN proc[p].pre.base) =>
            proc[p].note \notin {"EEXIST", "EISDIR"}

\* C8: an unshare of a grant that is not active returns success and leaves the base
\* directory and every row of the ledger as they were.
C8_UnshareInactiveIsNoOp ==
    \A p \in Procs :
        (At(p, "unshare", "done") /\ Resolved(p)
         /\ ~HasActiveGrant(proc[p].pre, proc[p].uuid, proc[p].recipient)) =>
            /\ proc[p].status = "ok"
            /\ base = proc[p].pre.base
            /\ shares = proc[p].pre.shares
            /\ files = proc[p].pre.files

\* The reclaim that follows a lockdown has made its two calls.
Reclaimed(p) == proc[p].op = "lockdown" /\ proc[p].pc = "rfa_delete"

\* C9, as stated: after lockdown then reclaim, the root of the tree and every entry
\* below it are owned by the operating identity with mode 0700.
C9_ReclaimWholeTree ==
    \A p \in Procs : Reclaimed(p) =>
        \A n \in DOMAIN base[proc[p].uuid].tree :
            LET nd == base[proc[p].uuid].tree[n]
            IN  nd.owner = "op" /\ nd.mode = OwnerOnlyDir

\* C9, amended: after lockdown then reclaim, the root of the tree is owned by the
\* operating identity with mode 0700, and every entry below it is still owned by the
\* service identity with its final mode.
C9_ReclaimRootOnly ==
    \A p \in Procs : Reclaimed(p) =>
        LET tree == base[proc[p].uuid].tree
        IN  /\ tree[<<>>].owner = "op" /\ tree[<<>>].mode = OwnerOnlyDir
            /\ \A n \in Below(tree, <<>>) : IsFinal(tree[n])
\* A tree two levels deep has been locked down and reclaimed.
C9_Witness ==
    \E p \in Procs :
        /\ Reclaimed(p)
        /\ \E n \in DOMAIN base[proc[p].uuid].tree : Len(n) = MaxDepth

\* C10: a remove of an identifier whose directory is not in the base directory, that
\* the operator did not decline, returns an error.
C10_RemoveOfMissingFails ==
    \A p \in Procs :
        (At(p, "remove", "done") /\ proc[p].uuid # "" /\ proc[p].note # "declined"
         /\ ~PathIsDir(proc[p].pre.base, proc[p].uuid)) =>
            proc[p].status = "err"

\* FileShare::remove has put its prompt to the operator, who answered something
\* other than y or Y.
Declined(p) ==
    /\ proc[p].op = "remove" /\ proc[p].pc # "idle"
    /\ proc[p].uuid \in DOMAIN proc[p].pre.files
    /\ ~proc[p].force
    /\ Trim(proc[p].answer) \notin {<<"y">>, <<"Y">>}

\* C11: a remove the operator declines has returned success, and the base directory
\* (its links, the owner and mode of every entry) and the ledger are as they were.
C11_DeclinedChangesNothing ==
    \A p \in Procs : Declined(p) =>
        /\ Returned(p, "remove", "ok")
        /\ base = proc[p].pre.base
        /\ files = proc[p].pre.files
        /\ shares = proc[p].pre.shares
\* The operator has declined the remove of a stored file that has a link.
C11_Witness ==
    \E p \in Procs :
        /\ Declined(p)
        /\ IsStored(proc[p].pre, proc[p].uuid)
        /\ LinksTo(base, proc[p].uuid) # {}

\* C12: the ledger has one row for a pair of identifier and recipient (the key of the
\* table); when a share of a pair that had a row has returned success, that row is
\* active, has the token derived now and no revocation time, and is newer than the
\* row it replaced.
C12_RegrantReplaces ==
    \A p \in Procs :
        LET k == <<proc[p].uuid, proc[p].recipient>>
        IN  (Returned(p, "share", "ok") /\ k \in DOMAIN proc[p].pre.shares) =>
                /\ k \in DOMAIN shares
                /\ shares[k].active
                /\ shares[k].share_hash = TokenOf(proc[p].uuid, proc[p].recipient)
                /\ shares[k].date_removed = 0
                /\ shares[k].date_shared > proc[p].pre.shares[k].date_shared
\* A share has returned success for a pair whose grant had been revoked.
C12_Witness ==
    \E p \in Procs :
        LET k == <<proc[p].uuid, proc[p].recipient>>
        IN  /\ Returned(p, "share", "ok")
            /\ k \in DOMAIN proc[p].pre.shares
            /\ ~proc[p].pre.shares[k].active
            /\ proc[p].pre.shares[k].date_removed # 0

(***************************************************************************)
(* sanitize_filename on every name of up to MaxName characters: a letter,  *)
(* a dot, the separators, a space, two control characters (one of them     *)
(* whitespace) and a character of the punctuation list.                    *)
(***************************************************************************)
NameChars == {"a", ".", "/", "\\", " ", "\t", "<BEL>", "<"}
Names == UNION {[1..n -> NameChars] : n \in 0..MaxName}

\* sanitize_filename(&name) is called and returns; proc[p].filename is the name it
\* accepts.
SanitizeCall(p) ==
    /\ Idle(p)
    /\ \E name \in Names :
         LET r == sanitize_filename(name)
             q == [Begin(p, "sanitize") EXCEPT !.input = name]
         IN  proc' = [proc EXCEPT ![p] =
                 IF r.ok THEN Return([q EXCEPT !.filename = r.val], "ok", "")
                 ELSE Return(q, "err", r.err)]
    /\ UNCHANGED <<env, base, sources, files, shares, clock, used>>

SanitizeNext == \E p \in Operator : SanitizeCall(p) \/ Exit(p)

SanitizeSpec == Init /\ [][SanitizeNext]_vars

HasControl(n) == \E i \in DOMAIN n : n[i] \in {"\t", "\n", "<BEL>"}
HasSeparator(n) == \E i \in DOMAIN n : n[i] \in {"/", "\\"}
HasDotDot(n) == \E i \in DOMAIN n : i < Len(n) /\ n[i] = "." /\ n[i + 1] = "."
LeadingDot(n) == n # <<>> /\ n[1] = "."

\* C13, as stated: a name with a separator, "..", a control character or a leading
\* dot is refused.
C13_OffendingNamesRefused ==
    \A p \in Procs :
        (At(p, "sanitize", "done")
         /\ (HasSeparator(proc[p].input) \/ HasDotDot(proc[p].input)
             \/ HasControl(proc[p].input) \/ LeadingDot(proc[p].input))) =>
            proc[p].status = "err"

\* The name without the whitespace at its ends, and that without its leading dots.
Trimmed(n) ==
    LET white == {" ", "\t", "\n"}
        inner == {i \in DOMAIN n : n[i] \notin white}
    IN  IF inner = {} THEN <<>>
        ELSE SubSeq(n, CHOOSE i \in inner : \A j \in inner : i <= j,
                       CHOOSE i \in inner : \A j \in inner : i >= j)
Undotted(n) ==
    LET rest == {i \in DOMAIN n : n[i] # "."}
    IN  IF rest = {} THEN <<>>
        ELSE SubSeq(n, CHOOSE i \in rest : \A j \in rest : i <= j, Len(n))

\* C13, amended: a name is refused when, trimmed of whitespace, it is empty or has a
\* separator or "..", and when, its leading dots removed as well, it is empty or has
\* a control character; any other name is accepted as what is left of it, leading
\* dots and whitespace at the ends (control characters among it) removed, and an
\* accepted name has no separator, no "..", no control character and no leading dot.
C13_SanitizeStripsOrRefuses ==
    \A p \in Procs :
        At(p, "sanitize", "done") =>
            LET t == Trimmed(proc[p].input)
                u == Undotted(t)
                out == proc[p].filename
            IN  /\ (t = <<>> \/ HasSeparator(t) \/ HasDotDot(t) \/ u = <<>> \/ HasControl(u))
                       => proc[p].status = "err"
                /\ proc[p].status = "ok" =>
                       /\ out = u /\ out # <<>>
                       /\ ~HasSeparator(out) /\ ~HasDotDot(out)
                       /\ ~HasControl(out) /\ ~LeadingDot(out)
\* A name that begins with a dot has been accepted, without the dot.
C13_Witness ==
    \E p \in Procs :
        /\ Returned(p, "sanitize", "ok")
        /\ LeadingDot(proc[p].input)
        /\ proc[p].filename = Tail(proc[p].input)

(***************************************************************************)
(* add alone, from the files an operator may have: one with a plain name,  *)
(* a hidden one, one whose name has a control character, one whose name    *)
(* has the marker of a staged upload; with a name given or not.            *)
(***************************************************************************)
AddSources ==
    OperatorFiles \cup {HomePath(<<".", "a">>), HomePath(<<"a", "<BEL>">>)}
AddSpecInputs ==
    {[path |-> path, name |-> name] :
        path \in AddSources \cup {StdinPath, HomePath(<<".", ".">>), HomePath(<<"z">>)},
        name \in {NoName, SomeName(<<".", "a">>), SomeName(<<"a", "/">>)}}

AddInit ==
    /\ env \in [foreign_keys : BOOLEAN, privileged : BOOLEAN, accounts : {HostAccounts}]
    /\ base = <<>>
    /\ sources = AddSources
    /\ files = <<>>
    /\ shares = <<>>
    /\ clock = 0
    /\ used = 0
    /\ proc = [p \in Procs |-> IdleProc]

AddNext ==
    \E p \in Operator :
        \/ Exit(p)
        \/ AddBeginWith(p, AddSpecInputs)
        \/ AddMkdir(p) \/ AddCopy(p) \/ AddCleanup(p) \/ AddInsert(p)
        \/ WalkEnter(p) \/ WalkChownCurrent(p) \/ WalkDescend(p)
        \/ WalkChmodFinal(p) \/ WalkChownFinal(p)

AddSpec == AddInit /\ [][AddNext]_vars

\* C14: every filename of the ledger, and every name of an entry of a file directory,
\* has no separator, no "..", no control character and no leading dot.
C14_StoredNamesClean ==
    LET Clean(n) == ~HasSeparator(n) /\ ~HasDotDot(n) /\ ~HasControl(n) /\ ~LeadingDot(n)
    IN  /\ \A u \in DOMAIN files : Clean(files[u].filename)
        /\ \A u \in DOMAIN base : ~base[u].link =>
               \A n \in DOMAIN base[u].tree : n # <<>> => Clean(n[Len(n)])

(***************************************************************************)
(* calculate_share_hash on what a configuration file can hold: a secret,   *)
(* empty or not, and hash_bytes from 0 to MaxHashBytes.                    *)
(***************************************************************************)
Secrets == {"", "k"}

\* calculate_share_hash(uuid, recipient, secret, hash_bytes) is called and returns a
\* token, or the slice of the digest panics.
HashCall(p) ==
    /\ Idle(p)
    /\ \E uuid \in {Uuid(1), Uuid(2)}, recipient \in Recipients, secret \in Secrets,
          hash_bytes \in 0..MaxHashBytes :
         LET q == [Begin(p, "derive") EXCEPT !.uuid = uuid, !.recipient = recipient,
                                             !.input = <<secret, hash_bytes>>]
         IN  proc' = [proc EXCEPT ![p] =
                 IF HashPanics(hash_bytes) THEN Return(q, "err", "panic")
                 ELSE Return([q EXCEPT !.token =
                                 calculate_share_hash(uuid, recipient, secret, hash_bytes)],
                             "ok", "")]
    /\ UNCHANGED <<env, base, sources, files, shares, clock, used>>

HashNext == \E p \in Operator : HashCall(p) \/ Exit(p)

HashSpec == Init /\ [][HashNext]_vars

\* C15: the derivation returns an error, and does not crash, when the length is not
\* in 2..32 or the secret is empty, and returns a token otherwise.
C15_DeriveValidates ==
    \A p \in Procs :
        At(p, "derive", "done") =>
            LET secret == proc[p].input[1]
                hash_bytes == proc[p].input[2]
            IN  IF hash_bytes \notin 2..32 \/ secret = ""
                THEN proc[p].status = "err" /\ proc[p].note # "panic"
                ELSE proc[p].status = "ok"

(***************************************************************************)
(* resolve_file_spec on every small ledger: up to MaxRows files of two     *)
(* names, added at different times, each with its directory.               *)
(***************************************************************************)
StoredTree(filename) ==
    (<<>> :> Node("dir", "web", DirMode)) @@ (<<filename>> :> Node("file", "web", FileMode))
Ledgers ==
    UNION {{fl \in [U -> {FileRow(n, d) : n \in {<<"a">>, <<"b">>}, d \in 1..MaxRows}] :
               \A u, v \in U : u # v => fl[u].date_added # fl[v].date_added} :
           U \in SUBSET {Uuid(i) : i \in 1..MaxRows}}

ResolveInit ==
    /\ env \in [foreign_keys : BOOLEAN, privileged : {TRUE}, accounts : {HostAccounts}]
    /\ files \in Ledgers
    /\ base = [u \in DOMAIN files |-> TreeEntry(StoredTree(files[u].filename))]
    /\ sources = OperatorFiles
    /\ shares = <<>>
    /\ clock = MaxRows
    /\ used = MaxRows
    /\ proc = [p \in Procs |-> IdleProc]

\* resolve_file_spec(&conn, file_spec) is called and returns.
ResolveCall(p) ==
    /\ Idle(p)
    /\ \E spec \in FileSpecs \cup {NameSpec(<<"b">>), IndexSpec(<<"a">>, MaxIndex + 1)},
          overflow_checks \in BOOLEAN :
         LET r == resolve_file_spec(files, spec, overflow_checks)
             q == [Begin(p, "resolve") EXCEPT !.input = <<spec>>]
         IN  proc' = [proc EXCEPT ![p] =
                 IF r.ok THEN Return([q EXCEPT !.uuid = r.val], "ok", "")
                 ELSE Return(q, "err", r.err)]
    /\ UNCHANGED <<env, base, sources, files, shares, clock, used>>

ResolveNext == \E p \in Operator : ResolveCall(p) \/ Exit(p)

ResolveSpec == ResolveInit /\ [][ResolveNext]_vars

\* The files of a name, and the k-th of them by date added.
Matches(name) == {u \in DOMAIN files : files[u].filename = name}
KthMatch(name, k) ==
    CHOOSE u \in Matches(name) :
        Cardinality({v \in Matches(name) : files[v].date_added < files[u].date_added}) = k - 1

\* C16: a name of two or more files without an index is refused as ambiguous; with an
\* index k, the k-th file of the name by date added is selected for k from 1 to the
\* number of matches, and any other k, 0 among them, fails; a name of no file is not
\* found.  No file is selected when the resolution fails.
C16_ResolveByName ==
    \A p \in Procs :
        (At(p, "resolve", "done") /\ ~proc[p].input[1].uuidlike
         /\ proc[p].input[1].parts <= 2 /\ proc[p].input[1].index >= 0) =>
            LET spec == proc[p].input[1]
                n == Cardinality(Matches(spec.name))
            IN  /\ proc[p].status = "err" => proc[p].uuid = ""
                /\ n = 0 => proc[p].status = "err" /\ proc[p].note = "File not found"
                /\ (n >= 2 /\ spec.parts = 1) =>
                       proc[p].status = "err" /\ proc[p].note = "Please specify file index"
                /\ (n = 1 /\ spec.parts = 1) =>
                       proc[p].status = "ok" /\ proc[p].uuid = KthMatch(spec.name, 1)
                /\ (n >= 1 /\ spec.parts = 2 /\ spec.index \in 1..n) =>
                       proc[p].status = "ok" /\ proc[p].uuid = KthMatch(spec.name, spec.index)
                /\ (n >= 1 /\ spec.parts = 2 /\ spec.index \notin 1..n) =>
                       proc[p].status = "err"
\* The second of two files of a name has been selected, though it has the first
\* identifier.
C16_Witness ==
    \E p \in Procs :
        /\ Returned(p, "resolve", "ok")
        /\ proc[p].input[1].parts = 2 /\ proc[p].input[1].index = 2
        /\ proc[p].uuid = Uuid(1)
        /\ Cardinality(Matches(proc[p].input[1].name)) >= 2

\* C17: on a host without the web user or without the web group, a lockdown fails
\* with the error that names the missing account, and at no step has it changed the
\* owner or the mode of an entry.
C17_MissingAccountStopsLockdown ==
    \A p \in Procs :
        (proc[p].op = "lockdown" /\ proc[p].pc # "idle" /\ env.accounts # HostAccounts) =>
            /\ base = proc[p].pre.base
            /\ proc[p].pc \in {"walk", "done"}
            /\ proc[p].pc = "done" =>
                   /\ proc[p].status = "err"
                   /\ proc[p].note = (IF "www-data:user" \notin env.accounts
                                      THEN "User not found" ELSE "Group not found")
\* A lockdown of a tree with entries has failed for the group alone.
C17_Witness ==
    \E p \in Procs :
        /\ Returned(p, "lockdown", "err")
        /\ proc[p].note = "Group not found"
        /\ "www-data:user" \in env.accounts
        /\ Cardinality(DOMAIN base[proc[p].uuid].tree) > 1

\* Every entry of base/<uuid> has its final mode and the service identity as owner.
LockedDown(uuid) ==
    /\ uuid \in DOMAIN base /\ ~base[uuid].link
    /\ Cardinality(DOMAIN base[uuid].tree) = 2
    /\ \A n \in DOMAIN base[uuid].tree : IsFinal(base[uuid].tree[n])
RemoveUnderWay(uuid) ==
    \E p \in Procs : proc[p].op = "remove" /\ proc[p].pc # "idle" /\ proc[p].uuid = uuid

\* C18, as stated: in every state, the directory of an identifier that has a files
\* row, and the file in it, are the service identity's with their final modes.
C18_RowImpliesLockedDown ==
    \A u \in DOMAIN files : LockedDown(u)

\* C18, amended: an add that has returned success has inserted the row of a directory
\* that is locked down; an add that is under way or has failed has inserted no row;
\* and the directory of a row, as long as it exists and no remove of it is under way,
\* is locked down.
C18_RowOnlyAfterLockdown ==
    /\ \A p \in Procs :
           proc[p].op = "add" =>
               IF Returned(p, "add", "ok")
               THEN proc[p].uuid \in DOMAIN files /\ LockedDown(proc[p].uuid)
               ELSE proc[p].uuid \notin DOMAIN files
    /\ \A u \in DOMAIN files :
           (u \in DOMAIN base /\ ~RemoveUnderWay(u)) => LockedDown(u)
\* An add has failed in its lockdown and left its directory, and no row.
C18_Witness ==
    \E p \in Procs :
        /\ Returned(p, "add", "err")
        /\ proc[p].note = "EPERM"
        /\ proc[p].uuid \in DOMAIN base
        /\ proc[p].uuid \notin DOMAIN files

HasDirectory(uuid) == uuid \in DOMAIN base /\ ~base[uuid].link
\* An add or a remove has returned, having had an identifier to work on.
ReturnedFor(p, op) == At(p, op, "done") /\ proc[p].uuid # ""

\* C19, as stated: when an add or a remove has returned, with success or with an
\* error, the directory of its identifier exists exactly when files has a row for it.
C19_DirectoryIffRow ==
    \A p \in Procs :
        (ReturnedFor(p, "add") \/ ReturnedFor(p, "remove")) =>
            (HasDirectory(proc[p].uuid) <=> proc[p].uuid \in DOMAIN files)

\* C19, amended: an add that has returned success has left the directory and the
\* row, and a remove that has run and returned success has left neither; an add that
\* has returned an error has left no row, with or without the directory, and a remove
\* that has returned an error has left the row, with or without the directory.
C19_WholeOnSuccess ==
    \A p \in Procs :
        LET I == proc[p].uuid
        IN  /\ ReturnedFor(p, "add") =>
                IF proc[p].status = "ok" THEN HasDirectory(I) /\ I \in DOMAIN files
                ELSE I \notin DOMAIN files
            /\ (ReturnedFor(p, "remove") /\ proc[p].note \notin {"declined", "no such file"}) =>
                IF proc[p].status = "ok" THEN ~HasDirectory(I) /\ I \notin DOMAIN files
                ELSE I \in DOMAIN files
\* A remove has returned an error and left the row of a directory it has deleted.
C19_Witness ==
    \E p \in Procs :
        /\ ReturnedFor(p, "remove") /\ proc[p].status = "err"
        /\ proc[p].uuid \in DOMAIN proc[p].pre.base
        /\ ~HasDirectory(proc[p].uuid)
        /\ proc[p].uuid \in DOMAIN files

\* The remove of proc[p] is in, or has failed in, remove_file_with_access.
InReclaim(p) ==
    \/ proc[p].pc \in {"rm_sweep", "rfa_chown", "rfa_chmod", "rfa_delete"}
    \/ proc[p].pc = "done" /\ proc[p].note \in {"ENOENT", "EPERM", "EISDIR"}
LedgerAsBefore(p) == files = proc[p].pre.files /\ shares = proc[p].pre.shares
Revoked(uuid) ==
    \A k \in SharesOf(shares, uuid) : ~shares[k].active /\ shares[k].date_removed # 0

\* C20: a remove sweeps the links, reclaims and deletes the directory, updates the
\* share rows and deletes the files row, in that order, and what a step has done stays
\* done when a later one fails: until the directory is deleted, and after a failure of
\* its reclaim or deletion, the ledger is as it was before the call, while the links
\* already swept are gone; the rows are updated only once links and directory are
\* gone; the files row is there until the last step, and stays if that step fails.
C20_RemoveOrder ==
    \A p \in Procs :
        (proc[p].op = "remove" /\ proc[p].rfa # "") =>
            LET I == proc[p].uuid
                gone == DOMAIN proc[p].pre.base \ DOMAIN base
            IN  /\ InReclaim(p) =>
                    /\ LedgerAsBefore(p)
                    /\ gone \subseteq LinksTo(proc[p].pre.base, I)
                    /\ proc[p].rfa = I => LinksTo(base, I) = {}
                /\ proc[p].pc = "rm_update" =>
                    LedgerAsBefore(p) /\ LinksTo(base, I) = {} /\ I \notin DOMAIN base
                /\ (proc[p].pc = "rm_delete"
                    \/ (proc[p].pc = "done" /\ proc[p].note = "FOREIGN KEY constraint failed")) =>
                    /\ I \in DOMAIN files /\ files = proc[p].pre.files
                    /\ Revoked(I)
                    /\ LinksTo(base, I) = {} /\ I \notin DOMAIN base
\* A remove has failed at the reclaim of a directory that is not there, for a file
\* with a revoked grant.
C20_Witness ==
    \E p \in Procs :
        /\ Returned(p, "remove", "err")
        /\ proc[p].note = "ENOENT"
        /\ proc[p].rfa = proc[p].uuid
        /\ SharesOf(shares, proc[p].uuid) # {}

(***************************************************************************)
(* Two invocations, one in each slot, on a store that holds one file       *)
(* shared with bob: each runs add or rm once, their system calls and       *)
(* statements interleaved in any order.                                    *)
(***************************************************************************)
StockedInit ==
    /\ env \in [foreign_keys : BOOLEAN, privileged : {TRUE}, accounts : {HostAccounts}]
    /\ base = (Uuid(1) :> TreeEntry(StoredTree(<<"a">>)))
              @@ (TokenOf(Uuid(1), "bob") :> LinkEntry(SymlinkTarget(Uuid(1))))
    /\ sources = OperatorFiles
    /\ files = (Uuid(1) :> FileRow(<<"a">>, 1))
    /\ shares = (<<Uuid(1), "bob">> :> ShareRow(TokenOf(Uuid(1), "bob"), 2, 0, TRUE))
    /\ clock = 2
    /\ used = 1
    /\ proc = [p \in Procs |-> IdleProc]

RaceInputs == {[path |-> HomePath(<<"a">>), name |-> NoName]}

RaceNext ==
    \E p \in Procs :
        \/ AddBeginWith(p, RaceInputs)
        \/ AddMkdir(p) \/ AddCopy(p) \/ AddCleanup(p) \/ AddInsert(p)
        \/ WalkEnter(p) \/ WalkChownCurrent(p) \/ WalkDescend(p)
        \/ WalkChmodFinal(p) \/ WalkChownFinal(p)
        \/ RemoveBegin(p) \/ RemoveSweepLink(p) \/ RemoveSweepDone(p)
        \/ RfaChown(p) \/ RfaChmod(p) \/ RfaDelete(p)
        \/ RemoveUpdateShares(p) \/ RemoveDeleteRow(p)

RaceSpec == StockedInit /\ [][RaceNext]_vars

\* C21, as stated: two invocations run at once, and while the lockdown of an add is
\* under way on an identifier a remove of that identifier is let in: the lookup of
\* remove_file finds its files row.
C21_RemoveRacesLockdown ==
    \A p \in Procs :
        (proc[p].op = "add" /\ proc[p].pc = "walk") => find_by_uuid(files, proc[p].uuid)

\* C21, amended: two invocations run at once, but from the creation of its directory
\* to its return an add is alone on its identifier: the identifier has no files row,
\* no other invocation is at work on it or on a link to it, and a remove asked for it
\* has returned success having changed nothing.
C21_AddAloneOnIdentifier ==
    \A p \in Procs :
        (proc[p].op = "add" /\ proc[p].pc \in {"add_copy", "add_cleanup", "walk", "add_insert"}) =>
            LET I == proc[p].uuid
            IN  /\ ~find_by_uuid(files, I)
                /\ LinksTo(base, I) = {}
                /\ \A q \in Procs \ {p} :
                       proc[q].uuid = I =>
                           /\ Returned(q, "remove", "ok")
                           /\ proc[q].note = "no such file"
                           /\ proc[q].rfa = ""
\* The lockdown of an add is under way on an identifier, and a remove of that
\* identifier, begun after the directory was made, has returned.
C21_Witness ==
    \E p, q \in Procs :
        /\ proc[p].op = "add" /\ proc[p].pc = "walk"
        /\ Top(proc[p]).pc \in {"own", "kids", "fin_own"}
        /\ Returned(q, "remove", "ok")
        /\ proc[q].uuid = proc[p].uuid
        /\ proc[q].uuid \in DOMAIN proc[q].pre.base

\* C22: a command touches only its own keys.  From its start to its return, a share or
\* an unshare of (I, r) leaves every entry of the base directory but the link named by
\* the token of (I, r), every files row and every share row but that of (I, r) as they
\* were; a remove of I leaves every entry but base/I and the links to I, the files rows
\* and the share rows of every other identifier as they were.
C22_OwnKeysOnly ==
    \A p \in Procs :
        LET q == proc[p]
            Same(f, g, keys) ==
                \A k \in keys : (k \in DOMAIN f <=> k \in DOMAIN g) /\ (k \in DOMAIN f => f[k] = g[k])
            entries == DOMAIN base \cup DOMAIN q.pre.base
            rows == DOMAIN shares \cup DOMAIN q.pre.shares
        IN  /\ (q.op \in {"share", "unshare"} /\ q.token # "") =>
                /\ Same(base, q.pre.base, entries \ {q.token})
                /\ files = q.pre.files
                /\ Same(shares, q.pre.shares, rows \ {<<q.uuid, q.recipient>>})
            /\ (q.op = "remove" /\ q.uuid # "") =>
                /\ Same(base, q.pre.base,
                        {n \in entries \ {q.uuid} :
                            ~(n \in DOMAIN q.pre.base /\ q.pre.base[n].link
                              /\ q.pre.base[n].target = q.uuid)})
                /\ Same(files, q.pre.files, (DOMAIN files \cup DOMAIN q.pre.files) \ {q.uuid})
                /\ Same(shares, q.pre.shares, {k \in rows : k[1] # q.uuid})
\* A remove has deleted a file while another file is stored and linked.
C22_Witness ==
    \E p \in Procs :
        /\ Returned(p, "remove", "ok") /\ proc[p].note = ""
        /\ \E J \in DOMAIN files :
               J # proc[p].uuid /\ \E n \in DOMAIN base : base[n].link /\ base[n].target = J

\* C23: a share that returns an error has left the base directory and the ledger as
\* they were when it started: no link made, no share row inserted.
C23_FailedShareChangesNothing ==
    \A p \in Procs :
        Returned(p, "share", "err") =>
            base = proc[p].pre.base /\ shares = proc[p].pre.shares /\ files = proc[p].pre.files

\* C24: an add whose source is a path the operator gave never deletes that source,
\* whatever its name: at every step of the add, and after it, the file is still there.
C24_SourceKept ==
    \A p \in Procs :
        (proc[p].op = "add" /\ proc[p].final_path # NoPath /\ proc[p].final_path.dir # "base") =>
            proc[p].final_path \in sources

\* C25: revocation history is kept.  A share row that is inactive when an unshare or a
\* remove starts is in the ledger, inactive and with the same revocation timestamp, at
\* every step of that command and when it has returned.
C25_RevocationKept ==
    \A p \in Procs :
        proc[p].op \in {"unshare", "remove"} =>
            \A k \in DOMAIN proc[p].pre.shares :
                ~proc[p].pre.shares[k].active =>
                    /\ k \in DOMAIN shares
                    /\ ~shares[k].active
                    /\ shares[k].date_removed = proc[p].pre.shares[k].date_removed

(***************************************************************************)
(* Two invocations, one in each slot, of share, unshare or rm on the store *)
(* that holds one file shared with bob: each runs once, their system calls *)
(* and statements interleaved in any order.                                *)
(***************************************************************************)
ConcurrentNext ==
    \E p \in Procs :
        \/ ShareBegin(p) \/ ShareUnlinkOld(p) \/ ShareSymlink(p) \/ ShareInsert(p)
        \/ ShareFind(p)
        \/ UnshareBegin(p) \/ UnshareUnlink(p) \/ UnshareUpdate(p)
        \/ RemoveBegin(p) \/ RemoveSweepLink(p) \/ RemoveSweepDone(p)
        \/ RfaChown(p) \/ RfaChmod(p) \/ RfaDelete(p)
        \/ RemoveUpdateShares(p) \/ RemoveDeleteRow(p)

ConcurrentSpec == StockedInit /\ [][ConcurrentNext]_vars

\* C26, as stated, where it owes nothing to a command that fails or to an identifier
\* the store does not hold: once two invocations of share, unshare or rm on one
\* identifier, stored when each began, have both returned success, however their steps
\* were interleaved, every active share row has a link named by its token, no inactive
\* row has one, and no link has a target whose directory is gone.
C26_AgreeAfterAnyInterleaving ==
    \A p, q \in Procs :
        (/\ p # q
         /\ proc[p].pc = "done" /\ proc[q].pc = "done"
         /\ proc[p].status = "ok" /\ proc[q].status = "ok"
         /\ proc[p].op \in {"share", "unshare", "remove"}
         /\ proc[q].op \in {"share", "unshare", "remove"}
         /\ proc[p].uuid = proc[q].uuid
         /\ IsStored(proc[p].pre, proc[p].uuid) /\ IsStored(proc[q].pre, proc[q].uuid)) =>
            /\ \A k \in DOMAIN shares : shares[k].active <=> IsLink(base, shares[k].share_hash)
            /\ \A n \in DOMAIN base : base[n].link => PathExists(base, n)

\* C26, amended: once a share or unshare of (I, r) and a share or unshare of (I, r'),
\* r' # r, on a stored identifier I have both returned, however their steps were
\* interleaved, both have succeeded and each has had its effect: a shared pair has its
\* link to I and its active row, an unshared pair has no link and no active row; so
\* the rows of I and the links agree.
C26_DistinctRecipientsAgree ==
    \A p, q \in Procs :
        (/\ p # q
         /\ proc[p].pc = "done" /\ proc[q].pc = "done"
         /\ proc[p].op \in {"share", "unshare"} /\ proc[q].op \in {"share", "unshare"}
         /\ proc[p].uuid = proc[q].uuid
         /\ IsStored(proc[p].pre, proc[p].uuid)
         /\ proc[p].token # "" /\ proc[q].token # ""
         /\ proc[p].recipient # proc[q].recipient) =>
            /\ proc[p].status = "ok"
            /\ IF proc[p].op = "share"
               THEN /\ IsLink(base, proc[p].token)
                    /\ base[proc[p].token].target = proc[p].uuid
                    /\ HasActiveGrant(Snapshot, proc[p].uuid, proc[p].recipient)
                    /\ shares[<<proc[p].uuid, proc[p].recipient>>].share_hash = proc[p].token
               ELSE /\ proc[p].token \notin DOMAIN base
                    /\ ~HasActiveGrant(Snapshot, proc[p].uuid, proc[p].recipient)
            /\ \A k \in SharesOf(shares, proc[p].uuid) :
                   shares[k].active <=> IsLink(base, shares[k].share_hash)
\* A share for eve and an unshare for bob of the stored file have both returned, each
\* begun before the other had touched its key.
C26_Witness ==
    \E p, q \in Procs :
        /\ Returned(p, "share", "ok") /\ Returned(q, "unshare", "ok")
        /\ proc[p].uuid = Uuid(1) /\ proc[q].uuid = Uuid(1)
        /\ proc[p].recipient = "eve" /\ proc[q].recipient = "bob"
        /\ HasActiveGrant(proc[p].pre, Uuid(1), "bob")
        /\ IsLink(proc[p].pre.base, proc[q].token)
        /\ <<Uuid(1), "eve">> \notin DOMAIN proc[q].pre.shares
        /\ proc[p].token \notin DOMAIN proc[q].pre.base

====
